---- MODULE Spec2Model ----
(***************************************************************************)
(* State machines of the two pages of the ticket client:                   *)
(*   ConversationPage (src/src/pages/index.tsx)  - the chat transcript     *)
(*   SummaryPage      (src/src/pages/_document.tsx) - the summary lookup   *)
(* Texts are sequences of one-character strings, so that trimming is       *)
(* computed; the long literals of the source are one-element sequences.    *)
(***************************************************************************)
EXTENDS Integers, Sequences, FiniteSets

VARIABLES
    page,             \* the route whose page component is mounted
    now,              \* the wall clock read by Date.now() / new Date()
    effectsRun,       \* the mount effects of the page have run
    messages,         \* ConversationPage: useState<Message[]>
    inputValue,       \* ConversationPage: useState('')
    isLoading,        \* ConversationPage: useState(false)
    chatInflight,     \* ConversationPage: suspended sendMessage calls (await fetch)
    chatRequests,     \* history: the POST /chat bodies issued, in order
    chatReplies,      \* history: what each completed request answered, in completion order
    searchQuery,      \* SummaryPage: useState('')
    summaryData,      \* SummaryPage: useState<SummaryData | null>(null)
    summaryIsLoading, \* SummaryPage: useState(false) (isLoading in the source)
    recentSearches,   \* SummaryPage: useState<string[]>([])
    localStorage,     \* the value stored under 'recent-searches'
    lookupInflight,   \* SummaryPage: suspended fetchSummary calls (await fetch)
    lookupRequests,   \* history: the GET /summarize/... requests issued, in order
    crashed,          \* an exception left a handler or effect uncaught
    lastEvent         \* history: the handler that ran last, and what it saw

chatVars == <<messages, inputValue, isLoading, chatInflight, chatRequests, chatReplies>>
summaryVars == <<searchQuery, summaryData, summaryIsLoading, recentSearches,
                 localStorage, lookupInflight, lookupRequests>>
vars == <<page, now, effectsRun, crashed, chatVars, summaryVars, lastEvent>>

-----------------------------------------------------------------------------
(* Bounds *)

MaxSubmits == 2
MaxLookups == 2
MaxTicks == 1
ClockStart == 10

-----------------------------------------------------------------------------
(* Text helpers *)

Whitespace == {" ", "\t", "\n"}

RECURSIVE TrimStart(_)
TrimStart(s) ==
    IF s = <<>> THEN s
    ELSE IF Head(s) \in Whitespace THEN TrimStart(Tail(s)) ELSE s

RECURSIVE TrimEnd(_)
TrimEnd(s) ==
    IF s = <<>> THEN s
    ELSE IF s[Len(s)] \in Whitespace THEN TrimEnd(SubSeq(s, 1, Len(s) - 1)) ELSE s

\* String.prototype.trim
Trim(s) == TrimEnd(TrimStart(s))

Digit(d) == CASE d = 0 -> "0" [] d = 1 -> "1" [] d = 2 -> "2" [] d = 3 -> "3"
              [] d = 4 -> "4" [] d = 5 -> "5" [] d = 6 -> "6" [] d = 7 -> "7"
              [] d = 8 -> "8" [] d = 9 -> "9"

\* Number.prototype.toString of a non-negative integer
RECURSIVE ToString(_)
ToString(n) ==
    IF n < 10 THEN <<Digit(n)>> ELSE Append(ToString(n \div 10), Digit(n % 10))

\* Array.prototype.slice(0, -1)
SliceDropLast(s) == SubSeq(s, 1, Len(s) - 1)

-----------------------------------------------------------------------------
(* ConversationPage: constants and inputs *)

SESSION_ID == "super-ai-chat-session"

WelcomeText == <<"Welcome to Ticket AI! ...">>
FallbackText == <<"Sorry, I encountered an issue processing your request.">>
ConnectionErrorText == <<"Connection Error: I couldn't connect to the Super AI backend. ...">>

\* what the textarea can hold after setInputValue (typed, or a suggestion clicked)
ChatInputs == { <<>>, <<" ", "\n">>, <<" ", "a", "\t">>, <<"b", " ", "c">> }

\* JSON values of a response body; a body that is not JSON at all is NotJson
NotJson == [type |-> "invalid"]
JsonNull == [type |-> "null"]
JsonFalse == [type |-> "false"]
JsonObject(f) == [type |-> "object", fields |-> f]
NoFields == [k \in {} |-> <<>>]

ChatBodies ==
    { NotJson, JsonNull, JsonObject(NoFields),
      JsonObject([response |-> <<>>]),
      JsonObject([response |-> <<"o", "k">>]) }

\* how a fetch of POST /chat can end: the promise rejects, or a response arrives
ChatOutcomes ==
    { [kind |-> "reject"] }
    \cup { [kind |-> "response", ok |-> TRUE, body |-> b] : b \in ChatBodies }
    \cup { [kind |-> "response", ok |-> FALSE, body |-> b] :
             b \in { NotJson, JsonObject([response |-> <<"o", "k">>]) } }

NoEvent == [name |-> "none"]

-----------------------------------------------------------------------------
(* ConversationPage: the welcome effect *)

WelcomeMessage(t) ==
    [id |-> <<"1">>, content |-> WelcomeText, sender |-> "ai",
     timestamp |-> t, isLoading |-> FALSE]

\* faulty variant: the effect without its emptiness test
WelcomeEffectUnguarded(msgs, t) == <<WelcomeMessage(t)>>

\* the body of the effect: what it leaves in `messages`
WelcomeEffect(msgs, t) ==
    IF Len(msgs) = 0 THEN <<WelcomeMessage(t)>> ELSE msgs

Initialize ==
    /\ page = "/"
    /\ messages' = WelcomeEffect(messages, now)
    /\ effectsRun' = TRUE
    /\ lastEvent' = [name |-> "initialize", before |-> messages]
    /\ UNCHANGED <<page, now, crashed, inputValue, isLoading, chatInflight, chatRequests,
                   chatReplies, summaryVars>>

-----------------------------------------------------------------------------
(* ConversationPage: input controls *)

TextareaDisabled == isLoading
SendButtonDisabled == Trim(inputValue) = <<>> \/ isLoading

HandleInputChange ==
    /\ page = "/" /\ effectsRun
    /\ ~TextareaDisabled
    /\ \E v \in ChatInputs :
         /\ inputValue' = v
         /\ lastEvent' = [name |-> "handleInputChange", value |-> v]
    /\ UNCHANGED <<page, now, effectsRun, crashed, messages, isLoading, chatInflight,
                   chatRequests, chatReplies, summaryVars>>

-----------------------------------------------------------------------------
(* ConversationPage: sendMessage up to its await *)

\* faulty variant: the early return without the test of the input
sendMessageReturnsEarlyBusyOnly(input, busy) == busy

\* the early return of sendMessage
sendMessageReturnsEarly(input, busy) == Trim(input) = <<>> \/ busy

userMessage(input, t) ==
    [id |-> ToString(t), content |-> Trim(input), sender |-> "user",
     timestamp |-> t, isLoading |-> FALSE]

\* faulty variant: the placeholder is not marked as loading
loadingMessageResolved(t) ==
    [id |-> ToString(t + 1), content |-> <<>>, sender |-> "ai",
     timestamp |-> t, isLoading |-> FALSE]

loadingMessage(t) ==
    [id |-> ToString(t + 1), content |-> <<>>, sender |-> "ai",
     timestamp |-> t, isLoading |-> TRUE]

\* faulty variant: the placeholder is not appended
AppendTurnsUserOnly(prev, input, t) == prev \o <<userMessage(input, t)>>

\* faulty variant: the placeholder is appended before the user turn
AppendTurnsSwapped(prev, input, t) == prev \o <<loadingMessage(t), userMessage(input, t)>>

\* setMessages(prev => [...prev, userMessage, loadingMessage])
AppendTurns(prev, input, t) == prev \o <<userMessage(input, t), loadingMessage(t)>>

\* the body of POST /chat
\* faulty variant: the text is sent as typed
ChatRequestBodyUntrimmed(input, t) == [message |-> input, sessionId |-> SESSION_ID]

ChatRequestBody(input, t) ==
    [message |-> userMessage(input, t).content, sessionId |-> SESSION_ID]

\* faulty variant: setIsLoading(true) is missing
AfterSendNotBusy(prev, input, t) ==
    [messages |-> AppendTurns(prev, input, t), inputValue |-> <<>>, isLoading |-> FALSE]

\* the state the three setters leave: setMessages, setInputValue(''), setIsLoading(true)
AfterSend(prev, input, t) ==
    [messages |-> AppendTurns(prev, input, t), inputValue |-> <<>>, isLoading |-> TRUE]

sendMessage(trigger) ==
    IF sendMessageReturnsEarly(inputValue, isLoading)
    THEN /\ lastEvent' = [name |-> "sendMessage", trigger |-> trigger, accepted |-> FALSE,
                          input |-> inputValue, busy |-> isLoading]
         /\ UNCHANGED <<page, now, effectsRun, crashed, chatVars, summaryVars>>
    ELSE /\ Len(chatRequests) < MaxSubmits
         /\ messages' = AfterSend(messages, inputValue, now).messages
         /\ inputValue' = AfterSend(messages, inputValue, now).inputValue
         /\ isLoading' = AfterSend(messages, inputValue, now).isLoading
         /\ chatInflight' = Append(chatInflight,
                [n |-> Len(chatRequests) + 1,
                 input |-> inputValue,
                 lenBefore |-> Len(messages),
                 pending |-> loadingMessage(now)])
         /\ chatRequests' = Append(chatRequests, ChatRequestBody(inputValue, now))
         /\ lastEvent' = [name |-> "sendMessage", trigger |-> trigger, accepted |-> TRUE,
                          input |-> inputValue, busy |-> isLoading]
         /\ UNCHANGED <<page, now, effectsRun, crashed, chatReplies, summaryVars>>

\* Enter without Shift in the textarea
HandleKeyPress ==
    /\ page = "/" /\ effectsRun
    /\ ~TextareaDisabled
    /\ sendMessage("key")

\* the send button
ClickSend ==
    /\ page = "/" /\ effectsRun
    /\ ~SendButtonDisabled
    /\ sendMessage("button")

\* sendMessage called whatever the controls show (the call its own guard is for)
CallSendMessage ==
    /\ page = "/" /\ effectsRun
    /\ sendMessage("call")

-----------------------------------------------------------------------------
(* ConversationPage: sendMessage after its await *)

\* faulty variant: response.ok is not tested
ChatThrowsIgnoresStatus(o) ==
    \/ o.kind = "reject"
    \/ o.body.type = "invalid"
    \/ o.body.type = "null"

\* does the try block throw for this outcome of the fetch?
ChatThrows(o) ==
    \/ o.kind = "reject"                      \* fetch rejects
    \/ ~o.ok                                  \* throw new Error(`HTTP error! ...`)
    \/ o.body.type = "invalid"                \* response.json() rejects
    \/ o.body.type = "null"                   \* data.response on null: TypeError

\* faulty variant: data.response ?? 'Sorry, ...'
ResponseOrFallbackNullish(data) ==
    IF "response" \in DOMAIN data.fields THEN data.fields.response ELSE FallbackText

\* data.response || 'Sorry, ...'
ResponseOrFallback(data) ==
    IF "response" \in DOMAIN data.fields /\ data.fields.response # <<>>
    THEN data.fields.response
    ELSE FallbackText

aiMessage(data, t) ==
    [id |-> ToString(t + 2), content |-> ResponseOrFallback(data), sender |-> "ai",
     timestamp |-> t, isLoading |-> FALSE]

errorMessage(t) ==
    [id |-> ToString(t + 2), content |-> ConnectionErrorText, sender |-> "ai",
     timestamp |-> t, isLoading |-> FALSE]

\* faulty variant: prev.concat([m])
ReplaceLastKeepsAll(prev, m) == prev \o <<m>>

\* faulty variant: prev.slice(1).concat([m])
ReplaceLastDropsFirst(prev, m) == (IF prev = <<>> THEN prev ELSE Tail(prev)) \o <<m>>

\* faulty variant: prev.slice(0, -2).concat([m])
ReplaceLastDropsTwo(prev, m) == SliceDropLast(SliceDropLast(prev)) \o <<m>>

\* setMessages(prev => prev.slice(0, -1).concat([m]))
ReplaceLast(prev, m) == SliceDropLast(prev) \o <<m>>

\* the reply a fetch outcome stands for (used by the history only)
ReplyKind(o) ==
    CASE o.kind = "reject" -> "error"
      [] o.kind = "response" /\ ~o.ok -> "error"
      [] o.kind = "response" /\ o.ok /\ o.body.type # "object" -> "error"
      [] OTHER -> IF o.body.fields = NoFields \/ o.body.fields.response = <<>>
                  THEN "fallback" ELSE "text"

ChatCompletion ==
    /\ page = "/"
    /\ \E i \in 1..Len(chatInflight), o \in ChatOutcomes :
         LET r == chatInflight[i]
             m == IF ChatThrows(o) THEN errorMessage(now) ELSE aiMessage(o.body, now)
         IN /\ messages' = ReplaceLast(messages, m)
            /\ isLoading' = FALSE
            /\ chatInflight' = SubSeq(chatInflight, 1, i - 1)
                                 \o SubSeq(chatInflight, i + 1, Len(chatInflight))
            /\ chatReplies' = Append(chatReplies,
                   [n |-> r.n, kind |-> ReplyKind(o),
                    text |-> IF ReplyKind(o) = "text" THEN o.body.fields.response ELSE <<>>])
            /\ lastEvent' = [name |-> "chatCompletion", outcome |-> o, request |-> r,
                             before |-> messages]
    /\ UNCHANGED <<page, now, effectsRun, crashed, inputValue, chatRequests, summaryVars>>

-----------------------------------------------------------------------------
(* SummaryPage: constants and inputs *)

RecentLimit == 5

quickExamples == << <<"13000020">>, <<"2025090610000020">>, <<"13000025">> >>

\* what the search box can hold after the user typed
SearchInputs == { <<>>, <<" ", "\t">>, <<" ", "7", " ">>, <<"8", "/", "8">> }

\* JSON.stringify of an array of strings (the strings hold no quote or backslash)
Quote(s) == <<"\"">> \o s \o <<"\"">>

\* faulty variant: the elements are not separated
RECURSIVE JoinQuotedNoComma(_)
JoinQuotedNoComma(list) ==
    IF list = <<>> THEN <<>>
    ELSE IF Len(list) = 1 THEN Quote(list[1])
    ELSE Quote(Head(list)) \o JoinQuotedNoComma(Tail(list))

RECURSIVE JoinQuoted(_)
JoinQuoted(list) ==
    IF list = <<>> THEN <<>>
    ELSE IF Len(list) = 1 THEN Quote(list[1])
    ELSE Quote(Head(list)) \o <<",">> \o JoinQuoted(Tail(list))

JsonStringify(list) == <<"[">> \o JoinQuoted(list) \o <<"]">>

\* JSON.parse of a text, for arrays of strings: [ok |-> parsed?, value |-> the array]
ParseFailed == [ok |-> FALSE, value |-> <<>>]

ClosingQuote(t) ==
    IF \E j \in 2..Len(t) : t[j] = "\""
    THEN CHOOSE j \in 2..Len(t) : t[j] = "\"" /\ \A k \in 2..(j - 1) : t[k] # "\""
    ELSE 0

RECURSIVE ParseElements(_, _)
ParseElements(t, acc) ==
    IF t = <<>> \/ t[1] # "\"" \/ ClosingQuote(t) = 0 THEN ParseFailed
    ELSE LET j == ClosingQuote(t)
             elem == SubSeq(t, 2, j - 1)
             rest == SubSeq(t, j + 1, Len(t))
         IN IF rest = <<>> THEN [ok |-> TRUE, value |-> Append(acc, elem)]
            ELSE IF rest[1] = "," THEN ParseElements(Tail(rest), Append(acc, elem))
            ELSE ParseFailed

JsonParse(t) ==
    IF Len(t) < 2 \/ t[1] # "[" \/ t[Len(t)] # "]" THEN ParseFailed
    ELSE IF Len(t) = 2 THEN [ok |-> TRUE, value |-> <<>>]
    ELSE ParseElements(SubSeq(t, 2, Len(t) - 1), <<>>)

\* localStorage under the key 'recent-searches': no item, or a text
StorageAbsent == [has |-> FALSE, text |-> <<>>]
Stored(t) == [has |-> TRUE, text |-> t]

\* a full log written by an earlier visit, and a text that is not JSON
FullLog == << <<"13000020">>, <<"7">>, <<"9">>, <<"a">>, <<"b">> >>
CorruptJson == <<"[", "\"", "7">>

InitialStorage == { StorageAbsent, Stored(JsonStringify(FullLog)), Stored(CorruptJson) }

\* encodeURIComponent, on the characters the inputs use
EncodeChar(c) ==
    CASE c = " " -> <<"%", "2", "0">>
      [] c = "\t" -> <<"%", "0", "9">>
      [] c = "\n" -> <<"%", "0", "A">>
      [] c = "/" -> <<"%", "2", "F">>
      [] OTHER -> <<c>>

RECURSIVE EncodeURIComponent(_)
EncodeURIComponent(s) ==
    IF s = <<>> THEN <<>> ELSE EncodeChar(Head(s)) \o EncodeURIComponent(Tail(s))

\* response bodies of GET /summarize/:identifier
SuccessPayload ==
    JsonObject([success |-> TRUE, identifier |-> <<"13000020">>,
                ticket |-> [ticketID |-> 13000020, ticketNumber |-> <<"2025090610000020">>],
                summary |-> <<"Customer reports ...">>, conversationLength |-> 4,
                attachmentCount |-> 1, timestamp |-> <<"2025-01-01T00:00:00Z">>])

SuccessNoTicket ==
    JsonObject([success |-> TRUE, identifier |-> <<"7">>, summary |-> <<"Short">>,
                conversationLength |-> 0, attachmentCount |-> 2,
                timestamp |-> <<"2025-02-02T00:00:00Z">>])

NotFoundPayload == JsonObject([success |-> FALSE, message |-> <<"No ticket found">>])
NotFoundOtherId == JsonObject([success |-> FALSE, identifier |-> <<"other">>])
NotFoundBare == JsonObject([success |-> FALSE])

SummaryBodies ==
    { NotJson, JsonNull, JsonFalse, SuccessPayload, SuccessNoTicket, NotFoundPayload,
      NotFoundOtherId, NotFoundBare }

\* how a fetch of GET /summarize/... can end
LookupOutcomes ==
    { [kind |-> "reject"] }
    \cup { [kind |-> "response", ok |-> TRUE, body |-> b] : b \in SummaryBodies }
    \cup { [kind |-> "response", ok |-> FALSE, body |-> b] :
             b \in { NotJson, SuccessPayload, NotFoundPayload } }

-----------------------------------------------------------------------------
(* SummaryPage: the load effect *)

\* the effect reads the item; JSON.parse throws on a text that is not JSON
\* what the effect's read of a stored item leaves of the list `recent`:
\* getItem gives null for no item, and '' is falsy as well
StartupRead(storage, recent) ==
    IF storage.has /\ storage.text # <<>>
    THEN IF JsonParse(storage.text).ok
         THEN [recent |-> JsonParse(storage.text).value, threw |-> FALSE]
         ELSE [recent |-> recent, threw |-> TRUE]
    ELSE [recent |-> recent, threw |-> FALSE]

LoadEffect ==
    /\ page = "/summary" /\ ~effectsRun /\ ~crashed
    /\ effectsRun' = TRUE
    /\ recentSearches' = StartupRead(localStorage, recentSearches).recent
    /\ crashed' = StartupRead(localStorage, recentSearches).threw
    /\ lastEvent' = [name |-> "loadEffect", saved |-> localStorage]
    /\ UNCHANGED <<page, now, chatVars, searchQuery, summaryData, summaryIsLoading,
                   localStorage, lookupInflight, lookupRequests>>

-----------------------------------------------------------------------------
(* SummaryPage: fetchSummary up to its await *)

\* faulty variant: the search box stays disabled
SearchInputAlwaysDisabled == TRUE
SearchInputDisabled == summaryIsLoading
SearchButtonDisabled == Trim(searchQuery) = <<>> \/ summaryIsLoading
\* faulty variant: the example buttons stay enabled
ExampleButtonNeverDisabled == FALSE
ExampleButtonDisabled == summaryIsLoading
\* faulty variant: the recent entries stay enabled
RecentButtonNeverDisabled == FALSE
RecentButtonDisabled == summaryIsLoading

\* the early return of fetchSummary
fetchSummaryReturnsEarly(identifier) == Trim(identifier) = <<>>

\* faulty variant: the identifier is not escaped
SummaryUrlUnescaped(identifier) == <<"/summarize/">> \o Trim(identifier)

\* the path of the request
SummaryUrl(identifier) == <<"/summarize/">> \o EncodeURIComponent(Trim(identifier))

\* fetchSummary(identifier), with setSearchQuery(query) in the same handler
fetchSummary(trigger, identifier, query) ==
    IF fetchSummaryReturnsEarly(identifier)
    THEN /\ searchQuery' = query
         /\ lastEvent' = [name |-> "fetchSummary", trigger |-> trigger, accepted |-> FALSE,
                          input |-> identifier, busy |-> summaryIsLoading]
         /\ UNCHANGED <<page, now, effectsRun, crashed, chatVars, summaryData,
                        summaryIsLoading, recentSearches, localStorage, lookupInflight,
                        lookupRequests>>
    ELSE /\ Len(lookupRequests) < MaxLookups
         /\ searchQuery' = query
         /\ summaryIsLoading' = TRUE
         /\ summaryData' = JsonNull
         /\ lookupInflight' = Append(lookupInflight,
                [n |-> Len(lookupRequests) + 1,
                 identifier |-> identifier,
                 recentSearches |-> recentSearches])
         /\ lookupRequests' = Append(lookupRequests, SummaryUrl(identifier))
         /\ lastEvent' = [name |-> "fetchSummary", trigger |-> trigger, accepted |-> TRUE,
                          input |-> identifier, busy |-> summaryIsLoading]
         /\ UNCHANGED <<page, now, effectsRun, crashed, chatVars, recentSearches,
                        localStorage>>

SetSearchQuery ==
    /\ page = "/summary" /\ effectsRun /\ ~crashed
    /\ ~SearchInputDisabled
    /\ \E v \in SearchInputs :
         /\ searchQuery' = v
         /\ lastEvent' = [name |-> "setSearchQuery", value |-> v]
    /\ UNCHANGED <<page, now, effectsRun, crashed, chatVars, summaryData, summaryIsLoading,
                   recentSearches, localStorage, lookupInflight, lookupRequests>>

\* handleSearch: if (searchQuery.trim()) fetchSummary(searchQuery.trim())
handleSearch(trigger) ==
    IF Trim(searchQuery) # <<>>
    THEN fetchSummary(trigger, Trim(searchQuery), searchQuery)
    ELSE /\ lastEvent' = [name |-> "handleSearch", trigger |-> trigger, accepted |-> FALSE,
                          input |-> searchQuery, busy |-> summaryIsLoading]
         /\ UNCHANGED <<page, now, effectsRun, crashed, chatVars, summaryVars>>

ClickSearch ==
    /\ page = "/summary" /\ effectsRun /\ ~crashed
    /\ ~SearchButtonDisabled
    /\ handleSearch("button")

\* Enter in the search box
SearchKeyPress ==
    /\ page = "/summary" /\ effectsRun /\ ~crashed
    /\ ~SearchInputDisabled
    /\ handleSearch("key")

\* An example button needs no earlier render to be clicked, so its handler can
\* run on the closures of the mount render before the load effect has run;
\* the render its setters cause runs the pending effect first.
ClickExample ==
    /\ page = "/summary" /\ ~crashed
    /\ ~ExampleButtonDisabled
    /\ \E i \in 1..Len(quickExamples) :
         fetchSummary("example", quickExamples[i], quickExamples[i])

ClickRecent ==
    /\ page = "/summary" /\ effectsRun /\ ~crashed
    /\ ~RecentButtonDisabled
    /\ \E i \in 1..Len(recentSearches) :
         fetchSummary("recent", recentSearches[i], recentSearches[i])

-----------------------------------------------------------------------------
(* SummaryPage: fetchSummary after its await *)

\* faulty variant: the filter is missing
KeepAll(list, query) == list

\* faulty variant: slice(0, 5) is missing
UpdatedUncapped(query, recent) == <<query>> \o SelectSeq(recent, LAMBDA x : x # query)

\* [query, ...recentSearches.filter(s => s !== query)].slice(0, 5)
Keep(list, query) == SelectSeq(list, LAMBDA x : x # query)
Updated(query, recent) ==
    LET all == <<query>> \o Keep(recent, query)
    IN SubSeq(all, 1, IF Len(all) < RecentLimit THEN Len(all) ELSE RecentLimit)

\* faulty variant: a body that is not JSON is passed on instead of thrown
LookupThrowsRejectOnly(o) == o.kind = "reject"

\* does the try block throw before setSummaryData(data)?
LookupThrows(o) ==
    \/ o.kind = "reject"                      \* fetch rejects
    \/ o.body.type = "invalid"                \* response.json() rejects

\* if (data.success): null has no properties, the read throws
SuccessReadThrows(data) == data.type = "null"
\* faulty variant: if (data)
MarksSuccessAnyObject(data) == data.type = "object"

MarksSuccess(data) ==
    /\ data.type = "object"
    /\ "success" \in DOMAIN data.fields
    /\ data.fields.success = TRUE

\* the object the catch block sets
ConnectionFailed(identifier, t) ==
    JsonObject([success |-> FALSE, identifier |-> Trim(identifier), summary |-> <<>>,
                conversationLength |-> 0, attachmentCount |-> 0,
                timestamp |-> ToString(t), error |-> <<"Connection failed">>,
                message |-> <<"Could not connect to the backend server. Make sure it's running on localhost:3002">>])

\* the state the resumed call leaves: [data, recent, storage]
\* quota: localStorage.setItem throws (storage full or refused)
LookupResult(r, o, quota, t) ==
    IF LookupThrows(o) \/ SuccessReadThrows(o.body)
    THEN [data |-> ConnectionFailed(r.identifier, t), recent |-> recentSearches,
          storage |-> localStorage]
    ELSE IF ~MarksSuccess(o.body)
    THEN [data |-> o.body, recent |-> recentSearches, storage |-> localStorage]
    ELSE LET updated == Updated(Trim(r.identifier), r.recentSearches)
         IN IF quota
            THEN [data |-> ConnectionFailed(r.identifier, t), recent |-> updated,
                  storage |-> localStorage]
            ELSE [data |-> o.body, recent |-> updated,
                  storage |-> Stored(JsonStringify(updated))]

\* the error state of the results section:
\* summaryData.message || `No ticket found with identifier: ${summaryData.identifier}`
ErrorMessageShown(data) ==
    IF "message" \in DOMAIN data.fields /\ data.fields.message # <<>>
    THEN data.fields.message
    ELSE <<"No ticket found with identifier: ">>
           \o (IF "identifier" \in DOMAIN data.fields
               THEN data.fields.identifier ELSE <<"undefined">>)

LookupCompletion ==
    /\ page = "/summary" /\ effectsRun /\ ~crashed
    /\ \E i \in 1..Len(lookupInflight), o \in LookupOutcomes, quota \in BOOLEAN :
         LET r == lookupInflight[i]
             res == LookupResult(r, o, quota, now)
         IN /\ quota => (~LookupThrows(o) /\ MarksSuccess(o.body))
            /\ summaryData' = res.data
            /\ recentSearches' = res.recent
            /\ localStorage' = res.storage
            /\ summaryIsLoading' = FALSE
            /\ lookupInflight' = SubSeq(lookupInflight, 1, i - 1)
                                   \o SubSeq(lookupInflight, i + 1, Len(lookupInflight))
            /\ lastEvent' = [name |-> "lookupCompletion", outcome |-> o, quota |-> quota,
                             request |-> r, recentBefore |-> recentSearches,
                             storageBefore |-> localStorage]
    /\ UNCHANGED <<page, now, effectsRun, crashed, chatVars, searchQuery, lookupRequests>>

-----------------------------------------------------------------------------
(* The clock *)

Tick ==
    /\ now < ClockStart + MaxTicks
    /\ now' = now + 1
    /\ UNCHANGED <<page, effectsRun, crashed, chatVars, summaryVars, lastEvent>>

-----------------------------------------------------------------------------

Init ==
    /\ page \in {"/", "/summary"}
    /\ now = ClockStart
    /\ effectsRun = FALSE
    /\ crashed = FALSE
    /\ messages = <<>>
    /\ inputValue = <<>>
    /\ isLoading = FALSE
    /\ chatInflight = <<>>
    /\ chatRequests = <<>>
    /\ chatReplies = <<>>
    /\ searchQuery = <<>>
    /\ summaryData = JsonNull
    /\ summaryIsLoading = FALSE
    /\ recentSearches = <<>>
    /\ localStorage \in (IF page = "/summary" THEN InitialStorage ELSE {StorageAbsent})
    /\ lookupInflight = <<>>
    /\ lookupRequests = <<>>
    /\ lastEvent = NoEvent

NextChat ==
    \/ Initialize
    \/ HandleInputChange
    \/ HandleKeyPress
    \/ ClickSend
    \/ CallSendMessage
    \/ ChatCompletion
    \/ Tick

NextSummary ==
    \/ LoadEffect
    \/ SetSearchQuery
    \/ ClickSearch
    \/ SearchKeyPress
    \/ ClickExample
    \/ ClickRecent
    \/ LookupCompletion
    \/ Tick

Next == NextChat \/ NextSummary

\* either page
Spec == Init /\ [][Next]_vars

\* the conversation page alone
InitChat == Init /\ page = "/"
SpecChat == InitChat /\ [][NextChat]_vars

\* the summary page alone
InitSummary == Init /\ page = "/summary"
SpecSummary == InitSummary /\ [][NextSummary]_vars

\* either page on a first visit (nothing stored), every request issued
\* eventually resolving or rejecting, the pending load effect eventually run
InitLive == Init /\ localStorage = StorageAbsent
SpecLive ==
    /\ InitLive /\ [][Next]_vars
    /\ WF_vars(ChatCompletion) /\ WF_vars(LookupCompletion) /\ WF_vars(LoadEffect)

-----------------------------------------------------------------------------
(* Properties of ConversationPage *)

IsChatCompletion == lastEvent.name = "chatCompletion"
LastTurn == messages[Len(messages)]
PendingTurns == { i \in 1..Len(messages) : messages[i].isLoading }
IsResolvedAssistantTurn(m) == m.sender = "ai" /\ ~m.isLoading

\* C1: when the request of an accepted submit has completed, the transcript is
\* exactly 2 turns longer than before the submit: a user turn with the trimmed
\* text, then an assistant turn; whatever the backend outcome.
C1_SubmitGrowsByTwo ==
    IsChatCompletion =>
        LET r == lastEvent.request
        IN /\ Trim(r.input) # <<>>
           /\ Len(messages) = r.lenBefore + 2
           /\ messages[r.lenBefore + 1].sender = "user"
           /\ messages[r.lenBefore + 1].content = Trim(r.input)
           /\ ~messages[r.lenBefore + 1].isLoading
           /\ IsResolvedAssistantTurn(messages[r.lenBefore + 2])

C1_Witness ==
    /\ IsChatCompletion
    /\ lastEvent.request.n = 2
    /\ lastEvent.request.input = <<" ", "a", "\t">>
    /\ lastEvent.outcome.kind = "response"
    /\ lastEvent.outcome.ok
    /\ lastEvent.outcome.body = NotJson
    /\ Len(messages) = 5

\* C2: the transcript never holds more than one pending turn.
C2_AtMostOnePending == Cardinality(PendingTurns) <= 1

C2_Witness ==
    /\ Cardinality(PendingTurns) = 1
    /\ Len(chatRequests) = 2
    /\ Len(chatReplies) = 1

\* C3: a completion removes the pending turn its own submit created, puts the
\* resolved assistant turn at that position, changes no other turn, and leaves
\* no pending turn.
C3_PendingReplacedInPlace ==
    IsChatCompletion =>
        LET r == lastEvent.request
            b == lastEvent.before
        IN /\ Len(b) = r.lenBefore + 2
           /\ b[Len(b)] = r.pending
           /\ b[Len(b)].isLoading
           /\ Len(messages) = Len(b)
           /\ SubSeq(messages, 1, Len(b) - 1) = SubSeq(b, 1, Len(b) - 1)
           /\ IsResolvedAssistantTurn(messages[Len(b)])
           /\ PendingTurns = {}

C3_Witness ==
    /\ IsChatCompletion
    /\ lastEvent.request.n = 2
    /\ lastEvent.outcome.kind = "reject"
    /\ lastEvent.before[5].isLoading
    /\ messages[5].content = ConnectionErrorText

IsOkJsonResponse(o) == o.kind = "response" /\ o.ok /\ o.body.type # "invalid"
HasResponseField(body) == body.type = "object" /\ "response" \in DOMAIN body.fields

\* C4, as claimed: after a 2xx response with a well-formed JSON body the last
\* turn is a resolved assistant turn whose content is the body's response field
\* when the field is present, and the fallback text only when it is absent.
C4_ResponseFieldVerbatim ==
    (IsChatCompletion /\ IsOkJsonResponse(lastEvent.outcome)) =>
        /\ IsResolvedAssistantTurn(LastTurn)
        /\ LastTurn.content =
             IF HasResponseField(lastEvent.outcome.body)
             THEN lastEvent.outcome.body.fields.response
             ELSE FallbackText

\* C4, amended: after a 2xx response whose body is a JSON object the last turn
\* is a resolved assistant turn whose content is the response field when it is
\* present and not empty, and the fallback text when it is absent or empty;
\* after a 2xx body of JSON null it is the connection-error text.
C4_ResponseOrFallback ==
    (IsChatCompletion /\ IsOkJsonResponse(lastEvent.outcome)) =>
        LET body == lastEvent.outcome.body
        IN /\ IsResolvedAssistantTurn(LastTurn)
           /\ (HasResponseField(body) /\ body.fields.response # <<>>)
                => LastTurn.content = body.fields.response
           /\ (body.type = "object" /\ ~HasResponseField(body))
                => LastTurn.content = FallbackText
           /\ (HasResponseField(body) /\ body.fields.response = <<>>)
                => LastTurn.content = FallbackText
           /\ body.type = "null" => LastTurn.content = ConnectionErrorText

C4_Witness ==
    /\ IsChatCompletion
    /\ lastEvent.outcome.kind = "response"
    /\ lastEvent.outcome.ok
    /\ lastEvent.outcome.body = JsonObject([response |-> <<>>])
    /\ LastTurn.content = FallbackText

IsChatFailure(o) ==
    \/ o.kind = "reject"
    \/ o.kind = "response" /\ ~o.ok
    \/ o.kind = "response" /\ o.body.type = "invalid"

\* C5: after a transport failure, a non-2xx status or a body that is not JSON,
\* the last turn is a resolved assistant turn with the one connection-error text.
C5_FailureGivesDiagnostic ==
    (IsChatCompletion /\ IsChatFailure(lastEvent.outcome)) =>
        /\ IsResolvedAssistantTurn(LastTurn)
        /\ LastTurn.content = ConnectionErrorText

C5_Witness ==
    /\ IsChatCompletion
    /\ lastEvent.outcome.kind = "response"
    /\ ~lastEvent.outcome.ok
    /\ lastEvent.outcome.body = JsonObject([response |-> <<"o", "k">>])
    /\ LastTurn.content = ConnectionErrorText

C8_SingleFlight ==
    [][ /\ Len(chatInflight') <= 1
        /\ chatRequests' # chatRequests =>
             (chatInflight = <<>> /\ ~isLoading /\ PendingTurns = {})
        /\ (lastEvent'.name = "sendMessage" /\ lastEvent'.busy) =>
             UNCHANGED <<messages, inputValue, isLoading, chatInflight, chatRequests>> ]_vars

C8_Witness ==
    /\ lastEvent.name = "sendMessage"
    /\ lastEvent.busy
    /\ ~lastEvent.accepted
    /\ Len(chatInflight) = 1
    /\ Len(chatRequests) = 2

ReplyText(reply) ==
    CASE reply.kind = "text" -> reply.text
      [] reply.kind = "fallback" -> FallbackText
      [] reply.kind = "error" -> ConnectionErrorText

\* C9: after the welcome turn the transcript is user_1, reply_1, user_2,
\* reply_2, ... in submission order; reply_i is what the request issued for
\* user_i answered, or its pending turn while that request is in flight.
C9_SubmissionOrder ==
    effectsRun =>
        /\ messages[1].content = WelcomeText
        /\ Len(messages) = 1 + 2 * Len(chatRequests)
        /\ \A i \in 1..Len(chatRequests) :
             /\ messages[2 * i].sender = "user"
             /\ messages[2 * i].content = chatRequests[i].message
             /\ messages[2 * i + 1].sender = "ai"
             /\ IF i <= Len(chatReplies)
                THEN /\ chatReplies[i].n = i
                     /\ ~messages[2 * i + 1].isLoading
                     /\ messages[2 * i + 1].content = ReplyText(chatReplies[i])
                ELSE messages[2 * i + 1].isLoading

C9_Witness ==
    /\ Len(chatReplies) = 2
    /\ chatReplies[1].kind = "error"
    /\ chatReplies[2].kind = "text"
    /\ chatRequests[1].message # chatRequests[2].message

-----------------------------------------------------------------------------
(* Properties of both pages *)

IsBlank(s) == \A i \in 1..Len(s) : s[i] \in Whitespace

\* C6: a submit or a lookup whose input is empty or only whitespace issues no
\* request and changes neither the transcript, the busy flags, the lookup
\* result, nor the recent searches in memory and in storage.
C6_BlankInputIsNoOp ==
    [][ (/\ lastEvent'.name \in {"sendMessage", "fetchSummary", "handleSearch"}
         /\ IsBlank(lastEvent'.input)) =>
          UNCHANGED <<messages, isLoading, chatInflight, chatRequests,
                      summaryData, summaryIsLoading, recentSearches, localStorage,
                      lookupInflight, lookupRequests>> ]_vars

C6_Witness ==
    /\ lastEvent.name = "handleSearch"
    /\ lastEvent.input = <<" ", "\t">>
    /\ ~lastEvent.accepted
    /\ recentSearches # <<>>
    /\ summaryData # JsonNull

-----------------------------------------------------------------------------
(* Properties of SummaryPage *)

IsLookupCompletion == lastEvent.name = "lookupCompletion"
PayloadMarksSuccess(o) ==
    /\ o.kind = "response"
    /\ o.body.type = "object"
    /\ "success" \in DOMAIN o.body.fields
    /\ o.body.fields.success

\* C10: after a lookup whose payload marks success the result is that payload
\* (ticket reference, summary text, conversation length, attachment count) and
\* the trimmed identifier is the first of the recent searches.
C10_SuccessResult ==
    (IsLookupCompletion /\ PayloadMarksSuccess(lastEvent.outcome)) =>
        /\ summaryData = lastEvent.outcome.body
        /\ summaryData.fields.success
        /\ recentSearches # <<>>
        /\ recentSearches[1] = Trim(lastEvent.request.identifier)


C10_Witness ==
    /\ IsLookupCompletion
    /\ PayloadMarksSuccess(lastEvent.outcome)
    /\ lastEvent.quota

PayloadMarksFailure(o) ==
    /\ o.kind = "response"
    /\ o.body.type = "object"
    /\ "success" \in DOMAIN o.body.fields
    /\ ~o.body.fields.success

ConnectionFailedMessage ==
    <<"Could not connect to the backend server. Make sure it's running on localhost:3002">>

IsSuccessResult(d) == d.type = "object" /\ "success" \in DOMAIN d.fields /\ d.fields.success
IsTransportError(d) ==
    /\ d.type = "object"
    /\ "success" \in DOMAIN d.fields /\ ~d.fields.success
    /\ "error" \in DOMAIN d.fields /\ d.fields.error = <<"Connection failed">>
IsNotFound(d) ==
    /\ d.type = "object"
    /\ "success" \in DOMAIN d.fields /\ ~d.fields.success
    /\ ~IsTransportError(d)

\* C11: after a lookup whose payload marks failure (whatever the HTTP status)
\* the result is NotFound, it is the payload, the message shown is the payload's
\* message when it gives one, and the recent searches are as before in memory
\* and in storage.
C11_FailureGivesNotFound ==
    (IsLookupCompletion /\ PayloadMarksFailure(lastEvent.outcome)) =>
        /\ IsNotFound(summaryData)
        /\ summaryData = lastEvent.outcome.body
        /\ "message" \in DOMAIN lastEvent.outcome.body.fields
             => ErrorMessageShown(summaryData) = lastEvent.outcome.body.fields.message
        /\ recentSearches = lastEvent.recentBefore
        /\ localStorage = lastEvent.storageBefore

C11_Witness ==
    /\ IsLookupCompletion
    /\ lastEvent.outcome.kind = "response"
    /\ lastEvent.outcome.ok
    /\ lastEvent.outcome.body = NotFoundPayload
    /\ ErrorMessageShown(summaryData) = <<"No ticket found">>
    /\ Len(recentSearches) = RecentLimit

IsNetworkFailure(o) ==
    \/ o.kind = "reject"
    \/ o.kind = "response" /\ o.body.type = "invalid"

\* C12: after a lookup that fails at the network level (the fetch rejects, or
\* the body is not JSON) the result is TransportError with the one message that
\* names localhost:3002, and the recent searches are as before in memory and in
\* storage.
C12_NetworkFailureGivesTransportError ==
    (IsLookupCompletion /\ IsNetworkFailure(lastEvent.outcome)) =>
        /\ IsTransportError(summaryData)
        /\ ErrorMessageShown(summaryData) = ConnectionFailedMessage
        /\ summaryData.fields.identifier = Trim(lastEvent.request.identifier)
        /\ recentSearches = lastEvent.recentBefore
        /\ localStorage = lastEvent.storageBefore

C12_Witness ==
    /\ IsLookupCompletion
    /\ lastEvent.outcome.kind = "response"
    /\ lastEvent.outcome.body = NotJson
    /\ IsTransportError(summaryData)
    /\ recentSearches # <<>>


Occurrences(list, x) == Cardinality({ i \in 1..Len(list) : list[i] = x })
NoDuplicates(list) == \A i, j \in 1..Len(list) : list[i] = list[j] => i = j
Without(list, x) == SelectSeq(list, LAMBDA y : y # x)
SearchedIdentifier == Trim(lastEvent.request.identifier)

\* the recent searches as they were when the lookup that has completed was called
LogAtCall == lastEvent.request.recentSearches

ReloadRestores(list) == StartupRead(localStorage, <<>>) = [recent |-> list, threw |-> FALSE]

StoredIsEncodedLog ==
    IsSuccessResult(summaryData) =>
        /\ localStorage = Stored(JsonStringify(recentSearches))
        /\ ReloadRestores(recentSearches)

StartupReadLoads ==
    (lastEvent.name = "loadEffect" /\ ~crashed) =>
        recentSearches = StartupRead(lastEvent.saved, <<>>).recent

WrittenOnlyAfterSuccess ==
    localStorage' # localStorage =>
        /\ lastEvent'.name = "lookupCompletion"
        /\ IsSuccessResult(summaryData')
        /\ localStorage' = Stored(JsonStringify(recentSearches'))

C16_WellFormedAfterCompletion ==
    /\ IsChatCompletion => (PendingTurns = {} /\ ~isLoading)
    /\ IsLookupCompletion =>
          /\ ~summaryIsLoading
          /\ \/ IsSuccessResult(summaryData)
             \/ IsNotFound(summaryData)
             \/ IsTransportError(summaryData)

(* Properties of SummaryPage, continued *)

LookupPending == summaryIsLoading \/ lookupInflight # <<>>

\* C17: at most one lookup request is in flight; a request is issued, by
\* whichever control, only when none is in flight and the page is not busy;
\* the lookup that completes is the one started last.
C17_NoOverlappingLookups ==
    [][ /\ Len(lookupInflight') <= 1
        /\ lookupRequests' # lookupRequests =>
             /\ ~LookupPending
             /\ lastEvent'.name = "fetchSummary"
             /\ lastEvent'.trigger \in {"button", "key", "example", "recent"}
             /\ ~lastEvent'.busy
        /\ lastEvent'.name = "lookupCompletion" =>
             /\ lastEvent'.request.n = Len(lookupRequests)
             /\ lookupInflight' = <<>> ]_vars

C17_Witness ==
    /\ lastEvent.name = "fetchSummary"
    /\ lastEvent.trigger = "example"
    /\ lastEvent.accepted
    /\ Len(lookupRequests) = 2
    /\ Len(lookupInflight) = 1
    /\ lookupInflight[1].n = 2

(* Properties of ConversationPage, continued *)

\* C18: the turns of the transcript have pairwise distinct ids.
C18_DistinctIds ==
    \A i, j \in 1..Len(messages) : messages[i].id = messages[j].id => i = j

\* a resolved assistant turn and the pending turn of the next submit share an id
C18_Witness ==
    \E i, j \in 1..Len(messages) :
        /\ i < j
        /\ messages[i].id = messages[j].id
        /\ IsResolvedAssistantTurn(messages[i])
        /\ messages[j].isLoading

(* Properties of SummaryPage, continued *)

PayloadHasMessage(o) == "message" \in DOMAIN o.body.fields /\ o.body.fields.message # <<>>

\* C19: after a lookup whose payload marks failure and gives no message, the
\* message shown is the default text followed by the trimmed identifier that
\* was looked up.
C19_DefaultNamesSearchedIdentifier ==
    (/\ IsLookupCompletion
     /\ PayloadMarksFailure(lastEvent.outcome)
     /\ ~PayloadHasMessage(lastEvent.outcome)) =>
        ErrorMessageShown(summaryData)
          = <<"No ticket found with identifier: ">> \o SearchedIdentifier

\* the payload names another identifier, and that one is shown
C19_Witness ==
    /\ IsLookupCompletion
    /\ lastEvent.outcome.kind = "response"
    /\ lastEvent.outcome.body = NotFoundOtherId
    /\ SearchedIdentifier = <<"7">>
    /\ ErrorMessageShown(summaryData) = <<"No ticket found with identifier: ", "other">>

\* C20: after a lookup whose response has a status outside 2xx the result is
\* TransportError and the recent searches are as before, in memory and in
\* storage.
C20_NonOkGivesTransportError ==
    (/\ IsLookupCompletion
     /\ lastEvent.outcome.kind = "response"
     /\ ~lastEvent.outcome.ok) =>
        /\ IsTransportError(summaryData)
        /\ recentSearches = lastEvent.recentBefore
        /\ localStorage = lastEvent.storageBefore

\* a 500 with a success payload is shown as Success and enters the list
C20_Witness ==
    /\ IsLookupCompletion
    /\ lastEvent.outcome.kind = "response"
    /\ ~lastEvent.outcome.ok
    /\ lastEvent.outcome.body = SuccessPayload
    /\ IsSuccessResult(summaryData)
    /\ recentSearches # lastEvent.recentBefore
    /\ localStorage # lastEvent.storageBefore

ResultAbsent == summaryData = JsonNull

\* C21: while a lookup is pending no result is there; the step that issues a
\* request sets the busy flag and clears the result, and the path requested is
\* /summarize/ followed by the escaped trimmed identifier, which is also the
\* text the search box then shows.
C21_PendingClearsResult ==
    /\ [](LookupPending => (ResultAbsent /\ summaryIsLoading))
    /\ [][ lookupRequests' # lookupRequests =>
             /\ summaryIsLoading' /\ ResultAbsent'
             /\ lookupRequests' = Append(lookupRequests,
                  <<"/summarize/">> \o EncodeURIComponent(Trim(lastEvent'.input)))
             /\ Trim(lastEvent'.input) = Trim(searchQuery') ]_vars

\* a second lookup is pending, the first had left a result, the path is escaped
C21_Witness ==
    /\ LookupPending
    /\ ResultAbsent
    /\ Len(lookupRequests) = 2
    /\ lastEvent.name = "fetchSummary"
    /\ searchQuery = <<"8", "/", "8">>
    /\ lookupRequests[2] = <<"/summarize/", "8", "%", "2", "F", "8">>
    /\ recentSearches # <<>>

SavedIsNotJson(saved) == saved.has /\ saved.text # <<>> /\ ~JsonParse(saved.text).ok

\* C22: when the stored item is not JSON, the load effect leaves the recent
\* searches empty and throws nothing.
C22_CorruptStorageGivesEmptyLog ==
    (lastEvent.name = "loadEffect" /\ SavedIsNotJson(lastEvent.saved)) =>
        (recentSearches = <<>> /\ ~crashed)

\* the effect has thrown on the corrupt item
C22_Witness ==
    /\ lastEvent.name = "loadEffect"
    /\ lastEvent.saved = Stored(CorruptJson)
    /\ crashed

(* Properties of ConversationPage, continued *)

AcceptedSubmit == lastEvent.name = "sendMessage" /\ lastEvent.accepted

\* C23: an accepted submit issues exactly one request, with the trimmed text as
\* message and the fixed key as sessionId; every request of the page carries
\* that key; no other step issues a request, in particular not the completion
\* of a request that failed.
C23_OneRequestPerSubmit ==
    /\ [](\A i \in 1..Len(chatRequests) :
             chatRequests[i].sessionId = "super-ai-chat-session")
    /\ [][ /\ (AcceptedSubmit' /\ lastEvent' # lastEvent) =>
                chatRequests' = Append(chatRequests,
                    [message |-> Trim(inputValue), sessionId |-> "super-ai-chat-session"])
           /\ chatRequests' # chatRequests =>
                /\ AcceptedSubmit' /\ lastEvent' # lastEvent
                /\ Len(messages') = Len(messages) + 2
                /\ messages'[Len(messages) + 1].content = Trim(inputValue) ]_vars

\* a submit after a request that failed
C23_Witness ==
    /\ AcceptedSubmit
    /\ Len(chatRequests) = 2
    /\ Len(chatReplies) = 1
    /\ chatReplies[1].kind = "error"
    /\ lastEvent.input = <<" ", "a", "\t">>
    /\ chatRequests[2].message = <<"a">>

(* Properties of both pages, continued *)

ChatPendingShown == isLoading /\ PendingTurns # {}
LookupPendingShown == summaryIsLoading /\ ResultAbsent

\* C24: while a request is in flight the busy flag is set and the pending state
\* is shown (a pending turn, or no lookup result), however much time passes;
\* the busy flag is cleared only by the step that completes the request.
C24_PendingUntilCompletion ==
    /\ []((chatInflight # <<>> => ChatPendingShown)
          /\ (lookupInflight # <<>> => LookupPendingShown))
    /\ [][ /\ (isLoading /\ ~isLoading') =>
                (lastEvent'.name = "chatCompletion" /\ Len(chatInflight') < Len(chatInflight))
           /\ (summaryIsLoading /\ ~summaryIsLoading') =>
                (lastEvent'.name = "lookupCompletion"
                 /\ Len(lookupInflight') < Len(lookupInflight))
           /\ (chatInflight # <<>> /\ chatInflight' = chatInflight) => ChatPendingShown'
           /\ (lookupInflight # <<>> /\ lookupInflight' = lookupInflight) =>
                LookupPendingShown' ]_vars

\* the clock has moved on while the request is still in flight
C24_Witness ==
    /\ chatInflight # <<>>
    /\ now > chatInflight[1].pending.timestamp
    /\ ChatPendingShown
    /\ lastEvent.name = "sendMessage"
    /\ ~lastEvent.accepted

\* a new submit would be accepted: the textarea takes input and sendMessage
\* passes its guard for every text that is not blank
SubmitAccepted ==
    /\ ~TextareaDisabled
    /\ \A v \in ChatInputs : ~IsBlank(v) => ~sendMessageReturnsEarly(v, isLoading)

\* a new lookup would be accepted: the controls are enabled and fetchSummary
\* passes its guard for every identifier that is not blank
LookupAccepted ==
    /\ ~SearchInputDisabled /\ ~ExampleButtonDisabled /\ ~RecentButtonDisabled
    /\ \A v \in SearchInputs : ~IsBlank(v) =>
          (~fetchSummaryReturnsEarly(v) /\ (searchQuery = v => ~SearchButtonDisabled))

ChatResolved == chatInflight = <<>> /\ ~isLoading /\ PendingTurns = {} /\ IsChatCompletion
LookupResolved == lookupInflight = <<>> /\ ~summaryIsLoading /\ IsLookupCompletion

C26_ResolvedTurnsStay ==
    [][ /\ Len(messages') >= Len(messages)
        /\ \A i \in 1..Len(messages) :
             ~messages[i].isLoading => messages'[i] = messages[i] ]_vars

\* the second request has completed; the turns of the first are still there
C26_Witness ==
    /\ IsChatCompletion
    /\ Len(chatReplies) = 2
    /\ Len(messages) = 5
    /\ messages[2].content = chatRequests[1].message
    /\ messages[3].content = ReplyText(chatReplies[1])
    /\ PendingTurns = {}

(* Properties of SummaryPage, continued *)

\* what lookup(x) does when it starts, by whichever control
StartsLikeLookup(x) ==
    IF Trim(x) = <<>>
    THEN UNCHANGED <<summaryData, summaryIsLoading, recentSearches, localStorage,
                     lookupInflight, lookupRequests>>
    ELSE /\ ~summaryIsLoading /\ lookupInflight = <<>>
         /\ summaryIsLoading' /\ summaryData' = JsonNull
         /\ lookupRequests' = Append(lookupRequests,
                <<"/summarize/">> \o EncodeURIComponent(Trim(x)))
         /\ Len(lookupInflight') = 1
         /\ Trim(lookupInflight'[1].identifier) = Trim(x)
         /\ UNCHANGED <<recentSearches, localStorage>>

\* what the completion of lookup(x) leaves, x trimmed
EndsLikeLookup(r, o, quota) ==
    LET trimmed == [r EXCEPT !.identifier = Trim(r.identifier)]
        res == LookupResult(trimmed, o, quota, now)
    IN /\ summaryData' = res.data
       /\ recentSearches' = res.recent
       /\ localStorage' = res.storage
       /\ ~summaryIsLoading'

C28_BusyIffPendingLast ==
    /\ isLoading <=> PendingTurns # {}
    /\ PendingTurns \subseteq {Len(messages)}

\* the second submit is pending behind the resolved turns of the first
C28_Witness ==
    /\ isLoading
    /\ Len(messages) = 5
    /\ PendingTurns = {5}
    /\ IsResolvedAssistantTurn(messages[3])

(* Properties of SummaryPage, continued *)

\* the list `log` with `x` put first, capped at 5
WithFirst(x, log) ==
    LET all == <<x>> \o Without(log, x)
    IN SubSeq(all, 1, IF Len(all) < 5 THEN Len(all) ELSE 5)

\* C29: the list a lookup with a success payload leaves, in memory and in the
\* stored item it writes, is the list as it was when the response arrived with
\* the identifier put first: nothing else is dropped but by the cap of 5.
C29_BuiltFromCurrentLog ==
    (IsLookupCompletion /\ PayloadMarksSuccess(lastEvent.outcome)) =>
        /\ recentSearches = WithFirst(SearchedIdentifier, lastEvent.recentBefore)
        /\ ~lastEvent.quota =>
              localStorage = Stored(JsonStringify(
                  WithFirst(SearchedIdentifier, lastEvent.recentBefore)))

\* the five entries the load effect had put in the list while the lookup was
\* in flight are gone, in memory and in storage
C29_Witness ==
    /\ IsLookupCompletion
    /\ PayloadMarksSuccess(lastEvent.outcome)
    /\ LogAtCall = <<>>
    /\ lastEvent.recentBefore = FullLog
    /\ recentSearches = << <<"2025090610000020">> >>
    /\ localStorage = Stored(JsonStringify(<< <<"2025090610000020">> >>))

\* C30: after a lookup whose payload marks success and whose write of the
\* stored item failed, the result is Success, not TransportError.
C30_SuccessSurvivesWriteError ==
    (IsLookupCompletion /\ PayloadMarksSuccess(lastEvent.outcome) /\ lastEvent.quota) =>
        /\ IsSuccessResult(summaryData)
        /\ ~IsTransportError(summaryData)

\* the write failed: the result is the connection error, the list in memory has
\* the identifier, the stored item is as before
C30_Witness ==
    /\ IsLookupCompletion
    /\ lastEvent.outcome.kind = "response"
    /\ lastEvent.outcome.body = SuccessPayload
    /\ lastEvent.quota
    /\ IsTransportError(summaryData)
    /\ ErrorMessageShown(summaryData) = ConnectionFailedMessage
    /\ recentSearches[1] = SearchedIdentifier
    /\ localStorage = lastEvent.storageBefore

====
